---- MODULE Spec2Model ----
(***************************************************************************)
(* binero_solver: Grid::parse, Display for Grid, Grid::is_valid and        *)
(* Grid::solve (src/grid.rs), driven as main does (src/main.rs).           *)
(*                                                                         *)
(* Indices are 0-based as in the source; a Rust Vec v is the sequence      *)
(* whose element v[k] is stored at position k + 1.  A panic (index out of  *)
(* range, arithmetic overflow, missing HashMap key, unimplemented!()) is   *)
(* the outcome "Panic": the call returns no Result.                        *)
(***************************************************************************)
EXTENDS Integers, Sequences, FiniteSets, TLC

\* Largest number of cells (width * height) of a grid handed to solve.
MaxCells == 9
\* Largest number of characters of an input text handed to parse.
MaxChars == 6
\* Width of usize in the model.  A range whose bound wrapped below zero
\* panics on its first window, so any word wider than a grid dimension
\* yields the outcomes of the 64-bit word of the usual targets.
UsizeBits == 16

VARIABLES
    overflow_checks, \* build profile: TRUE panics on usize overflow, FALSE wraps
    input,           \* the text read by main, a sequence of characters
    grid,            \* result of Grid::parse: a Grid or a GridError
    out,             \* text written by println!("{}", grid)
    back,            \* result of parsing the rendered text again
    valid,           \* outcome of the is_valid call made by solve
    result,          \* outcome of Grid::solve
    pc               \* position in main

vars == <<overflow_checks, input, grid, out, back, valid, result, pc>>

Cell == {"Zero", "One"}

OptionCell == Cell \cup {"None"}

NoGrid == [tag |-> "NoGrid"]

RECURSIVE Pow2(_)
Pow2(n) == IF n = 0 THEN 1 ELSE 2 * Pow2(n - 1)

\* a - b on usize: a panic under overflow checks, a wrapped value without.
usize_sub(a, b) ==
    IF a >= b THEN [ok |-> TRUE, v |-> a - b]
    ELSE IF overflow_checks THEN [ok |-> FALSE, v |-> 0]
    ELSE [ok |-> TRUE, v |-> (a - b) % Pow2(UsizeBits)]

\* self[(i, j)]: Vec indexing panics out of range.
Index(g, idx) ==
    IF idx[1] < Len(g.cells) /\ idx[2] < Len(g.cells[idx[1] + 1])
    THEN g.cells[idx[1] + 1][idx[2] + 1]
    ELSE "Panic"

\* The k-th window of a lane: cells k, k + 1, k + 2 of row `lane` (horizontal)
\* or of column `lane`.
Triple(lane, horizontal, k) ==
    IF horizontal
    THEN <<(<<lane, k>>), (<<lane, k + 1>>), (<<lane, k + 2>>)>>
    ELSE <<(<<k, lane>>), (<<k + 1, lane>>), (<<k + 2, lane>>)>>

\* check_cells over the windows k .. end - 1 of a lane, taken one at a time.
RECURSIVE check_cells(_, _, _, _, _)
check_cells(g, lane, horizontal, k, end) ==
    IF k >= end THEN "Ok"
    ELSE LET t  == Triple(lane, horizontal, k)
             c0 == Index(g, t[1])
             c1 == Index(g, t[2])
             c2 == Index(g, t[3])
         IN  IF "Panic" \in {c0, c1, c2} THEN "Panic"
             ELSE IF c0 \in Cell /\ c0 = c1 /\ c1 = c2 THEN "AdjacentCells"
             ELSE check_cells(g, lane, horizontal, k + 1, end)

\* (0..n).try_for_each(|lane| self.check_cells((0..len - 2).map(...)))
RECURSIVE each_check_cells(_, _, _, _)
each_check_cells(g, horizontal, lane, n) ==
    IF lane >= n THEN "Ok"
    ELSE LET len == IF horizontal THEN g.width ELSE g.height
             end == usize_sub(len, 2)
             r   == IF end.ok THEN check_cells(g, lane, horizontal, 0, end.v)
                    ELSE "Panic"
         IN  IF r # "Ok" THEN r
             ELSE each_check_cells(g, horizontal, lane + 1, n)

\* The cells of row `lane` (horizontal) or column `lane`, in order.
Lane(g, lane, horizontal) ==
    IF horizontal
    THEN [k \in 1..g.width |-> <<lane, k - 1>>]
    ELSE [k \in 1..g.height |-> <<k - 1, lane>>]

\* balance.entry(x).and_modify(|count| *count += 1).or_insert(1)
Entry(balance, x) ==
    IF x \in DOMAIN balance THEN [balance EXCEPT ![x] = @ + 1]
    ELSE balance @@ (x :> 1)

\* check_balance: the loop from position k with the HashMap built so far,
\* then the comparison, where indexing a missing key panics.
RECURSIVE check_balance_from(_, _, _, _)
check_balance_from(g, indices, k, balance) ==
    IF k > Len(indices)
    THEN IF ~ ("Zero" \in DOMAIN balance /\ "One" \in DOMAIN balance) THEN "Panic"
         ELSE IF balance["Zero"] # balance["One"] THEN "LaneUnbalanced"
         ELSE "Ok"
    ELSE LET c == Index(g, indices[k])
         IN  IF c = "Panic" THEN "Panic"
             ELSE IF c = "None" THEN "Ok"
             ELSE check_balance_from(g, indices, k + 1, Entry(balance, c))

check_balance(g, indices) == check_balance_from(g, indices, 1, <<>>)

\* (0..n).try_for_each(|lane| self.check_balance(...))
RECURSIVE each_check_balance(_, _, _, _)
each_check_balance(g, horizontal, lane, n) ==
    IF lane >= n THEN "Ok"
    ELSE LET r == check_balance(g, Lane(g, lane, horizontal))
         IN  IF r # "Ok" THEN r
             ELSE each_check_balance(g, horizontal, lane + 1, n)

\* SameCells without the Some(..) patterns: two unknown cells count as equal.
SameOptions(c0, c1) == c0 = c1

\* The match of check_lanes: both cells determined and equal.
SameCells(c0, c1) == c0 \in Cell /\ c0 = c1

\* check_lanes over two lanes zipped cell by cell, from position k.
RECURSIVE check_lanes_from(_, _, _, _)
check_lanes_from(g, lane0, lane1, k) ==
    IF k > Len(lane0) THEN "SameLanes"
    ELSE LET c0 == Index(g, lane0[k])
             c1 == Index(g, lane1[k])
         IN  IF "Panic" \in {c0, c1} THEN "Panic"
             ELSE IF SameCells(c0, c1) THEN check_lanes_from(g, lane0, lane1, k + 1)
             ELSE "Ok"

check_lanes(g, lane0, lane1) == check_lanes_from(g, lane0, lane1, 1)

\* (l0 + 1..n).try_for_each(|l1| self.check_lanes(...))
RECURSIVE each_check_lanes(_, _, _, _, _)
each_check_lanes(g, horizontal, l0, l1, n) ==
    IF l1 >= n THEN "Ok"
    ELSE LET r == check_lanes(g, Lane(g, l0, horizontal), Lane(g, l1, horizontal))
         IN  IF r # "Ok" THEN r
             ELSE each_check_lanes(g, horizontal, l0, l1 + 1, n)

\* for l0 in 0..end { (l0 + 1..n).try_for_each(...)? }
RECURSIVE lane_pairs(_, _, _, _, _)
lane_pairs(g, horizontal, l0, end, n) ==
    IF l0 >= end THEN "Ok"
    ELSE LET r == each_check_lanes(g, horizontal, l0, l0 + 1, n)
         IN  IF r # "Ok" THEN r
             ELSE lane_pairs(g, horizontal, l0 + 1, end, n)

\* for l0 in 0..n - 1 { ... } with the bound n - 1 computed on usize.
for_lane_pairs(g, horizontal, n) ==
    LET end == usize_sub(n, 1)
    IN  IF end.ok THEN lane_pairs(g, horizontal, 0, end.v, n) ELSE "Panic"

\* The ? operator: the first outcome that is not Ok ends the function.
Try(r, rest) == IF r # "Ok" THEN r ELSE rest

\* The triple-run checks of is_valid: rows, then columns.
adjacent_checks(g) ==
    Try(each_check_cells(g, TRUE, 0, g.height),
        each_check_cells(g, FALSE, 0, g.width))

\* The balance checks of is_valid: rows, then columns.
balance_checks(g) ==
    Try(each_check_balance(g, TRUE, 0, g.height),
        each_check_balance(g, FALSE, 0, g.width))

\* The distinct-lines checks of is_valid: row pairs, then column pairs.
lanes_checks(g) ==
    Try(for_lane_pairs(g, TRUE, g.height),
        for_lane_pairs(g, FALSE, g.width))

is_valid(g) ==
    Try(adjacent_checks(g), Try(balance_checks(g), lanes_checks(g)))

\* is_filled looking at the first row only.
is_filled_first_row(g) ==
    \A j \in 0..g.width - 1 : Index(g, <<0, j>>) \in Cell

is_filled(g) ==
    \A i \in 0..g.height - 1 : \A j \in 0..g.width - 1 : Index(g, <<i, j>>) \in Cell

\* Grid::solve given the outcome v of its is_valid call.
solve(g, v) ==
    IF v # "Ok" THEN v
    ELSE IF is_filled(g) THEN "Ok"
    ELSE "Panic"

\* parse_chars with the catch-all arm ignoring the character.
RECURSIVE parse_chars_lenient(_, _, _)
parse_chars_lenient(line, k, vec) ==
    IF k > Len(line) THEN [tag |-> "Ok", vec |-> vec]
    ELSE LET c == line[k]
         IN  IF c = "0" THEN parse_chars_lenient(line, k + 1, Append(vec, "Zero"))
             ELSE IF c = "1" THEN parse_chars_lenient(line, k + 1, Append(vec, "One"))
             ELSE IF c = "-" THEN parse_chars_lenient(line, k + 1, Append(vec, "None"))
             ELSE parse_chars_lenient(line, k + 1, vec)

\* One line of parse: the inner loop over the characters from position k.
RECURSIVE parse_chars(_, _, _)
parse_chars(line, k, vec) ==
    IF k > Len(line) THEN [tag |-> "Ok", vec |-> vec]
    ELSE LET c == line[k]
         IN  IF c \in {" ", "\t"} THEN parse_chars(line, k + 1, vec)
             ELSE IF c = "0" THEN parse_chars(line, k + 1, Append(vec, "Zero"))
             ELSE IF c = "1" THEN parse_chars(line, k + 1, Append(vec, "One"))
             ELSE IF c = "-" THEN parse_chars(line, k + 1, Append(vec, "None"))
             ELSE [tag |-> "InvalidChar", c |-> c]

\* WidthDiffers comparing against nothing: every row is pushed.
WidthNeverDiffers(cells, vec) == FALSE

\* if let Some(prev) = cells.last() { if vec.len() != prev.len() { ... } }
WidthDiffers(cells, vec) ==
    cells # <<>> /\ Len(vec) # Len(cells[Len(cells)])

\* The outer loop of parse from line k with the rows pushed so far, then the
\* construction of the Grid.
RECURSIVE parse_lines(_, _, _)
parse_lines(lines, k, cells) ==
    IF k > Len(lines)
    THEN IF cells = <<>> THEN [tag |-> "EmptyGrid"]
         ELSE [tag |-> "Ok", cells |-> cells,
               height |-> Len(cells), width |-> Len(cells[1])]
    ELSE LET r == parse_chars(lines[k], 1, <<>>)
         IN  IF r.tag # "Ok" THEN r
             ELSE IF r.vec = <<>> THEN parse_lines(lines, k + 1, cells)
             ELSE IF WidthDiffers(cells, r.vec)
                  THEN [tag |-> "WidthMismatch",
                        expected |-> Len(cells[Len(cells)]), actual |-> Len(r.vec)]
             ELSE parse_lines(lines, k + 1, Append(cells, r.vec))

parse(lines) == parse_lines(lines, 1, <<>>)

\* reader.lines(): the text cut at each line break; the text after the last
\* break is a line only when it is not empty.
RECURSIVE lines_from(_, _, _, _)
lines_from(text, k, cur, acc) ==
    IF k > Len(text) THEN IF cur = <<>> THEN acc ELSE Append(acc, cur)
    ELSE IF text[k] = "\n" THEN lines_from(text, k + 1, <<>>, Append(acc, cur))
    ELSE lines_from(text, k + 1, Append(cur, text[k]), acc)

Lines(text) == lines_from(text, 1, <<>>, <<>>)

\* fmt_cell writing a blank for an unknown cell.
fmt_cell_blank(c) ==
    IF c = "Zero" THEN "0" ELSE IF c = "One" THEN "1" ELSE " "

\* Display for Cell, and the "-" Display for Grid writes for None.
fmt_cell(c) ==
    IF c = "Zero" THEN "0" ELSE IF c = "One" THEN "1" ELSE "-"

\* The inner loop of Display for Grid: row i from column j.  The loop body
\* runs only when width >= 1, so width - 1 does not overflow.
RECURSIVE fmt_row(_, _, _)
fmt_row(g, i, j) ==
    IF j >= g.width THEN <<>>
    ELSE <<fmt_cell(g.cells[i + 1][j + 1])>>
         \o (IF j < g.width - 1 THEN <<" ">> ELSE <<>>)
         \o fmt_row(g, i, j + 1)

\* The outer loop of Display for Grid, from row i.
RECURSIVE fmt_rows(_, _)
fmt_rows(g, i) ==
    IF i >= g.height THEN <<>>
    ELSE fmt_row(g, i, 0)
         \o (IF i < g.height - 1 THEN <<"\n">> ELSE <<>>)
         \o fmt_rows(g, i + 1)

fmt(g) == fmt_rows(g, 0)

\* Characters of an input text: the five parse accepts, two it rejects, and
\* the line break reader.lines() cuts at.
Chars == {"0", "1", "-", " ", "\t", "x", "y", "\n"}

\* The shapes parse can return: width >= 1, height >= 1.
Shapes ==
    {s \in (1..MaxCells) \X (1..MaxCells) : s[1] * s[2] <= MaxCells}

\* A grid as parse builds it from rows c of one length.
Grid(c) == [tag |-> "Ok", cells |-> c, height |-> Len(c), width |-> Len(c[1])]

\* main, line 17: Grid::parse(reader.lines())?
Parse ==
    /\ pc = "start"
    /\ grid' = parse(Lines(input))
    /\ pc' = IF grid'.tag = "Ok" THEN "parsed" ELSE "failed"
    /\ UNCHANGED <<overflow_checks, input, out, back, valid, result>>

\* main, line 18: println!("{}", grid)
Println ==
    /\ pc = "parsed"
    /\ out' = fmt(grid)
    /\ pc' = "printed"
    /\ UNCHANGED <<overflow_checks, input, grid, back, valid, result>>

\* The rendered text cut into lines and parsed again.
Reparse ==
    /\ pc = "printed"
    /\ back' = parse(Lines(out))
    /\ pc' = "reparsed"
    /\ UNCHANGED <<overflow_checks, input, grid, out, valid, result>>

\* main, line 19: grid.solve()?
Solve ==
    /\ pc = "printed"
    /\ valid' = is_valid(grid)
    /\ result' = solve(grid, valid')
    /\ pc' = "solved"
    /\ UNCHANGED <<overflow_checks, input, grid, out, back>>

\* The state once parse has returned a grid; the text it came from is not kept.
Init ==
    /\ overflow_checks \in BOOLEAN
    /\ input = <<>>
    /\ \E s \in Shapes : \E c \in [1..s[1] -> [1..s[2] -> OptionCell]] :
            grid = Grid(c)
    /\ out = <<>>
    /\ back = NoGrid
    /\ valid = "Pending"
    /\ result = "Pending"
    /\ pc = "parsed"

Next == Println \/ Solve

Spec == Init /\ [][Next]_vars

\* The state before parse, with the text main has read.  No step taken from
\* here subtracts on usize, so the build profile is not drawn.
InitParse ==
    /\ overflow_checks = TRUE
    /\ \E n \in 0..MaxChars : input \in [1..n -> Chars]
    /\ grid = NoGrid
    /\ out = <<>>
    /\ back = NoGrid
    /\ valid = "Pending"
    /\ result = "Pending"
    /\ pc = "start"

NextParse == Parse \/ Println \/ Reparse

SpecParse == InitParse /\ [][NextParse]_vars

(***************************************************************************)
(* The rules of the puzzle, stated on the cells without the checker.       *)
(***************************************************************************)

\* The rows and the columns of g as sequences of cells.
RowsOf(g) == {g.cells[i] : i \in 1..g.height}

ColumnOf(g, j) == [i \in 1..g.height |-> g.cells[i][j]]

ColumnsOf(g) == {ColumnOf(g, j) : j \in 1..g.width}

LinesOf(g) == RowsOf(g) \cup ColumnsOf(g)

Determined(l) == \A k \in DOMAIN l : l[k] \in Cell

HasUnknown(g) == \E l \in RowsOf(g) : ~ Determined(l)

\* Three consecutive cells of l, all determined and equal.
HasRun(l) ==
    \E k \in 1..Len(l) - 2 : l[k] \in Cell /\ l[k] = l[k + 1] /\ l[k + 1] = l[k + 2]

CountOf(l, c) == Cardinality({k \in DOMAIN l : l[k] = c})

\* A fully determined line whose counts of Zero and One differ.
Unbalanced(l) == Determined(l) /\ CountOf(l, "Zero") # CountOf(l, "One")

\* Two distinct rows, or two distinct columns, fully determined and identical.
HasTwin(g) ==
    \/ \E i0, i1 \in 1..g.height :
          i0 < i1 /\ Determined(g.cells[i0]) /\ g.cells[i0] = g.cells[i1]
    \/ \E j0, j1 \in 1..g.width :
          j0 < j1 /\ Determined(ColumnOf(g, j0)) /\ ColumnOf(g, j0) = ColumnOf(g, j1)

AnyRun(g) == \E l \in LinesOf(g) : HasRun(l)

AnyUnbalanced(g) == \E l \in LinesOf(g) : Unbalanced(l)

Verdicts == {"Ok", "AdjacentCells", "LaneUnbalanced", "SameLanes"}

Solved == pc = "solved"

(***************************************************************************)
(* Claims about Grid::solve and Grid::is_valid, under Spec.                *)
(***************************************************************************)

\* C1: on every grid that passes is_valid, solve returns a result: Ok with
\* the grid fully determined and valid, or Unsatisfiable; it never aborts.
C1_SolveReturns ==
    (Solved /\ valid = "Ok") =>
        \/ result = "Ok" /\ ~ HasUnknown(grid)
        \/ result = "Unsatisfiable"

\* C2: whenever solve returns Ok, the grid has no unknown cell and is_valid
\* returned Ok on it: no run of three, every line balanced, no twin lines.
C2_OkIsFilledAndValid ==
    (Solved /\ result = "Ok") =>
        /\ ~ HasUnknown(grid)
        /\ valid = "Ok"
        /\ ~ AnyRun(grid) /\ ~ AnyUnbalanced(grid) /\ ~ HasTwin(grid)

C2_Witness == Solved /\ result = "Ok" /\ grid.height >= 2 /\ grid.width >= 2

\* C3: when the triple-run checks pass, a fully determined row or column
\* whose counts of Zero and One differ makes is_valid return LaneUnbalanced,
\* and LaneUnbalanced is returned only for such a line.
C3_UnbalancedRejected ==
    Solved =>
        /\ (adjacent_checks(grid) = "Ok" /\ AnyUnbalanced(grid))
              => valid = "LaneUnbalanced"
        /\ valid = "LaneUnbalanced" => AnyUnbalanced(grid)

\* C4: on a grid of any width >= 1 and height >= 1, a row or column with
\* three consecutive determined equal cells makes is_valid return
\* AdjacentCells, and AdjacentCells is returned only for such a window.
C4_RunRejected ==
    Solved =>
        /\ AnyRun(grid) => valid = "AdjacentCells"
        /\ valid = "AdjacentCells" => AnyRun(grid)

\* C5: with width < 3 (height < 3) the row (column) triple-run check passes,
\* with height < 2 (width < 2) the row-pair (column-pair) check passes, and
\* is_valid returns a verdict on grids of width 1 or 2 or height 1 or 2.
C5_SmallDimensionsPass ==
    Solved =>
        /\ grid.width < 3 => each_check_cells(grid, TRUE, 0, grid.height) = "Ok"
        /\ grid.height < 3 => each_check_cells(grid, FALSE, 0, grid.width) = "Ok"
        /\ grid.height < 2 => for_lane_pairs(grid, TRUE, grid.height) = "Ok"
        /\ grid.width < 2 => for_lane_pairs(grid, FALSE, grid.width) = "Ok"
        /\ (grid.width < 3 \/ grid.height < 3) => valid \in Verdicts

\* C6: on a grid that passes the triple-run and balance checks, is_valid
\* returns SameLanes exactly when two distinct rows or two distinct columns
\* are fully determined and identical, and Ok otherwise.
C6_SameLanesIff ==
    (Solved /\ adjacent_checks(grid) = "Ok" /\ balance_checks(grid) = "Ok") =>
        /\ valid = "SameLanes" <=> HasTwin(grid)
        /\ valid \in {"Ok", "SameLanes"}

C6_Witness ==
    /\ Solved /\ adjacent_checks(grid) = "Ok" /\ balance_checks(grid) = "Ok"
    /\ valid = "SameLanes"

\* C10: a grid with a triple run and an unbalanced full line yields
\* AdjacentCells, and a grid with no triple run, an unbalanced full line and
\* two identical full lines yields LaneUnbalanced.
C10_EarliestCheckWins ==
    Solved =>
        /\ (AnyRun(grid) /\ AnyUnbalanced(grid)) => valid = "AdjacentCells"
        /\ (~ AnyRun(grid) /\ AnyUnbalanced(grid) /\ HasTwin(grid))
              => valid = "LaneUnbalanced"

(***************************************************************************)
(* The input text, stated on its characters without the parser.            *)
(***************************************************************************)

CellChars == {"0", "1", "-"}

BlankChars == {" ", "\t"}

\* Positions of the characters parse does not accept.
InvalidAt(text) ==
    {k \in DOMAIN text : text[k] \notin CellChars \cup BlankChars \cup {"\n"}}

FirstInvalidAt(text) ==
    CHOOSE k \in InvalidAt(text) : \A m \in InvalidAt(text) : k <= m

\* Number of the line that holds position k, counted from 1.
LineOf(text, k) == 1 + Cardinality({m \in 1..k - 1 : text[m] = "\n"})

CellCount(line) == Cardinality({k \in DOMAIN line : line[k] \in CellChars})

Blank(line) == \A k \in DOMAIN line : line[k] \in BlankChars

NonBlank(ls) == {k \in DOMAIN ls : ~ Blank(ls[k])}

Least(S) == CHOOSE k \in S : \A m \in S : k <= m

\* The lines before line m that hold cells all hold the same number of them.
RowsAgreeBefore(ls, m) ==
    \A a, b \in 1..m - 1 :
        (CellCount(ls[a]) > 0 /\ CellCount(ls[b]) > 0)
            => CellCount(ls[a]) = CellCount(ls[b])

ParseReturned == pc \in {"parsed", "failed", "printed", "reparsed"}

(***************************************************************************)
(* Claims about Grid::parse and Display for Grid, under SpecParse.         *)
(***************************************************************************)

\* C7 as stated: an input with a character other than '0', '1', '-', space
\* or tab makes parse fail with InvalidChar carrying the first such
\* character, whatever the other lines contain.
C7_InvalidCharAlways ==
    (ParseReturned /\ InvalidAt(input) # {}) =>
        grid = [tag |-> "InvalidChar", c |-> input[FirstInvalidAt(input)]]

\* C7 as amended: such an input makes parse fail with InvalidChar carrying
\* the first such character, provided the non-blank lines before the line
\* holding that character all have the same cell count.
C7_InvalidCharUnlessEarlierMismatch ==
    (ParseReturned /\ InvalidAt(input) # {}) =>
        LET at == FirstInvalidAt(input)
        IN  RowsAgreeBefore(Lines(input), LineOf(input, at))
                => grid = [tag |-> "InvalidChar", c |-> input[at]]

C7_Witness ==
    /\ ParseReturned /\ Cardinality(InvalidAt(input)) >= 2
    /\ \E k \in InvalidAt(input) : input[k] # input[FirstInvalidAt(input)]
    /\ CellCount(Lines(input)[1]) > 0
    /\ LineOf(input, FirstInvalidAt(input)) >= 2
    /\ grid.tag = "InvalidChar"

C9_RoundTrip ==
    pc = "reparsed" =>
        LET w == grid.width
            h == grid.height
        IN  /\ Len(out) = 2 * w * h - 1
            /\ \A p \in 1..Len(out) :
                  out[p] = IF p % (2 * w) = 0 THEN "\n"
                           ELSE IF p % 2 = 0 THEN " "
                           ELSE LET c == grid.cells[(p \div (2 * w)) + 1]
                                                   [((p % (2 * w)) \div 2) + 1]
                                IN  IF c = "Zero" THEN "0"
                                    ELSE IF c = "One" THEN "1" ELSE "-"
            /\ back.tag = "Ok"
            /\ back.width = w /\ back.height = h /\ back.cells = grid.cells

C9_Witness ==
    /\ pc = "reparsed" /\ grid.height >= 2 /\ grid.width >= 2
    /\ \E i \in 1..grid.height : \E j \in 1..grid.width : grid.cells[i][j] = "None"
    /\ out # input

====
